---------------------------- MODULE Spec2Model ----------------------------
(***************************************************************************)
(* Realm discovery of adal/user_realm.py: UserRealm.__init__,              *)
(* UserRealm.discover, UserRealm._parse_discovery_response and the         *)
(* vocabulary validation helpers, as a state machine.                      *)
(*                                                                         *)
(* Python values are modelled as strings; PyNone and PyFalse are the two   *)
(* distinguished non-string values.  A Python call is modelled by the      *)
(* record [exc, val]: exc = "none" when the call returns val, and the      *)
(* name of the exception class when it raises.                             *)
(***************************************************************************)
EXTENDS Naturals, Sequences, FiniteSets

VARIABLES
    pc,         \* "ready" (constructed / returned to caller idle), "get" (inside requests.get), "returned"
    self,       \* the four result fields of the UserRealm object
    resp,       \* the response requests.get returned to the running/last discover, or NoResp
    raised,     \* the exception requests.get raised in the running/last discover, or "none"
    calls,      \* the invocations of callback made by the running/last discover, in order
    gets,       \* number of requests.get calls issued by the running/last discover
    parsed,     \* whether the running/last discover entered _parse_discovery_response
    nDiscover,  \* number of discover calls made on this object
    vin,        \* validation helpers: the input drawn
    vout        \* validation helpers: the last call and its outcome

vars == <<pc, self, resp, raised, calls, gets, parsed, nDiscover, vin, vout>>

-----------------------------------------------------------------------------
(* Bounds *)

\* discover calls made on one UserRealm object before a new one is constructed
MaxDiscover == 2

-----------------------------------------------------------------------------
(* Python values *)

PyNone == "<None>"
PyFalse == "<False>"

\* Python truthiness of a str / None / False value
Truthy(v) == v \notin {PyNone, PyFalse, ""}

Return(v) == [exc |-> "none", val |-> v]
Raise(e) == [exc |-> e, val |-> PyNone]

\* str.lower() on the strings the model draws
Lower(s) ==
    CASE s = "Managed" -> "managed"
      [] s = "MANAGED" -> "managed"
      [] s = "Federated" -> "federated"
      [] s = "FEDERATED" -> "federated"
      [] s = "Unknown" -> "unknown"
      [] s = "WSFed" -> "wsfed"
      [] s = "WSFED" -> "wsfed"
      [] s = "Bogus" -> "bogus"
      [] OTHER -> s

\* dict.values()
Values(dict) == {dict[k] : k \in DOMAIN dict}

\* dict[key]
DictGet(dict, key) ==
    IF key \in DOMAIN dict THEN Return(dict[key]) ELSE Raise("KeyError")

-----------------------------------------------------------------------------
(* Module scope of user_realm.py *)

\* the names bound at module level by the imports and assignments of the file
ModuleNames ==
    {"quote", "unquote", "urlencode", "urlparse", "urlsplit", "requests",
     "constants", "log", "util", "USER_REALM_PATH_TEMPLATE", "AccountType",
     "FederationProtocolType", "UserRealm"}

\* constants.UserRealm.account_type
AccountType ==
    [Federated |-> "federated", Managed |-> "managed", Unknown |-> "unknown"]

\* constants.UserRealm.federation_protocol_type
FederationProtocolType == [WSFed |-> "wsfed"]

\* util.is_http_success
IsHttpSuccess(status_code) == status_code >= 200 /\ status_code <= 299


-----------------------------------------------------------------------------
(* Vocabulary validation helpers *)

\* the parameters of _validate_constant_value after self
ValidateConstantValueParams == <<"constants", "value", "case_sensitive">>

\* the names a body of _validate_constant_value can read
ValidateConstantValueScope ==
    ModuleNames \cup {"self"}
        \cup {ValidateConstantValueParams[i] : i \in 1..Len(ValidateConstantValueParams)}

\* UserRealm._validate_constant_value(constants, value, case_sensitive)
ValidateConstantValue(constants, value, case_sensitive) ==
    IF ~Truthy(value)
    THEN Return(PyFalse)
    ELSE LET v == IF ~case_sensitive THEN Lower(value) ELSE value
         IN  IF "constnats" \notin ValidateConstantValueScope
             THEN Raise("NameError")
             ELSE IF v \in Values(constants) THEN Return(v) ELSE Return(PyFalse)

\* a call self._validate_constant_value(*args): the positional arguments must
\* fill every parameter, none of which has a default
CallValidateConstantValue(args) ==
    IF Len(args) # Len(ValidateConstantValueParams)
    THEN Raise("TypeError")
    ELSE ValidateConstantValue(args[1], args[2], args[3])

\* UserRealm._validate_account_type(type)
ValidateAccountType(type) == CallValidateConstantValue(<<AccountType, type>>)

\* UserRealm._validate_federation_protocol(protocol)
ValidateFederationProtocol(protocol) ==
    CallValidateConstantValue(<<FederationProtocolType, protocol>>)

-----------------------------------------------------------------------------
(* HTTP responses and bodies *)

Keys ==
    {"account_type", "federation_protocol", "federation_metadata_url",
     "federation_active_auth_url"}

Absent == "<absent>"

\* the JSON object holding the keys whose value is not Absent
MkObj(at, fp, mu, au) ==
    LET all == [account_type |-> at, federation_protocol |-> fp,
                federation_metadata_url |-> mu, federation_active_auth_url |-> au]
    IN  [k \in {x \in Keys : all[x] # Absent} |-> all[k]]

AccountTypeInputs ==
    {Absent, "", "Managed", "managed", "MANAGED", "Federated", "federated",
     "Unknown", "Bogus"}

ProtocolInputs == {Absent, "", "WSFed", "wsfed", "Bogus"}

JsonObjects ==
    {MkObj(at, fp, u[1], u[2]) :
        at \in AccountTypeInputs, fp \in ProtocolInputs,
        u \in {<<Absent, Absent>>, <<"https://idp/meta", Absent>>,
               <<"https://idp/meta", "https://idp/auth">>}}

\* a response body: the empty string, text that is not JSON, or the text of a JSON object
NoObj == MkObj(Absent, Absent, Absent, Absent)
NoBody == [kind |-> "none", obj |-> NoObj]
Bodies ==
    {[kind |-> "empty", obj |-> NoObj], [kind |-> "text", obj |-> NoObj]}
        \cup {[kind |-> "json", obj |-> o] : o \in JsonObjects}

StatusCodes == {200, 204, 404, 500, 503}

\* what requests.get returns: has_body tells whether the object exposes the
\* attribute `body` that discover reads (requests.Response exposes the payload
\* as text/content and defines no `body`; a stand-in shaped like the
\* collaborator interface {statusCode, body, headers} does)
Responses == [status_code : StatusCodes, has_body : BOOLEAN, body : Bodies]

NoResp == [status_code |-> 0, has_body |-> FALSE, body |-> NoBody]

\* truthiness of a body string: `if resp.body:`
BodyTruthy(b) == b.kind # "empty"

\* what requests.get raises
TransportExceptions == {"ConnectionError", "Timeout"}

\* resp.body
RespBody(r) == IF r.has_body THEN Return(r.body) ELSE Raise("AttributeError")

\* resp.json()
RespJson(r) ==
    IF r.body.kind = "json" THEN Return(r.body.obj) ELSE Raise("ValueError")

\* json.loads(body) as written in _parse_discovery_response
JsonLoads(body) ==
    IF "json" \notin ModuleNames
    THEN Raise("NameError")
    ELSE IF body.kind = "json" THEN Return(body.obj) ELSE Raise("ValueError")

-----------------------------------------------------------------------------
(* Errors and callback invocations *)

NoError == [kind |-> "none", detail |-> "", status |-> 0, body |-> NoBody]

\* self._log.create_error(message): message = detail [+ status] [+ body]
CreateError(detail, status, body) ==
    [kind |-> "created", detail |-> detail, status |-> status, body |-> body]

\* a caught exception object handed on as it is
ExceptionObject(e) == [kind |-> "exception", detail |-> e, status |-> 0, body |-> NoBody]

\* callback(err)
Callback1(err) == [err |-> err, nargs |-> 1, response |-> [kind |-> "absent", obj |-> NoObj]]

\* callback(err, response)
Callback2(err, response) == [err |-> err, nargs |-> 2, response |-> response]

ResponseNone == [kind |-> "None", obj |-> NoObj]
ResponseEmptyString == [kind |-> "str", obj |-> NoObj]
ResponseJson(o) == [kind |-> "json", obj |-> o]

-----------------------------------------------------------------------------
(* UserRealm *)

\* UserRealm.__init__: the four result fields
InitSelf ==
    [federation_protocol |-> PyNone, account_type |-> PyNone,
     federation_metadata_url |-> PyNone, federation_active_auth_url |-> PyNone]

\* the outcome of a block of code: the object after it, the callback
\* invocations it made, and the exception that left it ("none": it returned)
Outcome(s, cs, e) == [self |-> s, calls |-> cs, exc |-> e]

\* _parse_discovery_response, lines 129-141, once self._account_type is assigned
ParseFederation(s, response) ==
    IF s.account_type = AccountType["Federated"]
    THEN LET g == DictGet(response, "federation_protocol")
             protocol == ValidateFederationProtocol(g.val)
         IN  IF g.exc # "none" THEN Outcome(s, <<>>, g.exc)
             ELSE IF protocol.exc # "none" THEN Outcome(s, <<>>, protocol.exc)
             ELSE IF ~Truthy(protocol.val)
             THEN Outcome(s, <<Callback1(CreateError("Cannot parse federation protocol", 0, NoBody))>>, "none")
             ELSE LET s1 == [s EXCEPT !.federation_protocol = protocol.val]
                      mu == DictGet(response, "federation_metadata_url")
                      s2 == [s1 EXCEPT !.federation_metadata_url = mu.val]
                      au == DictGet(response, "federation_active_auth_url")
                      s3 == [s2 EXCEPT !.federation_active_auth_url = au.val]
                  IN  IF mu.exc # "none" THEN Outcome(s1, <<>>, mu.exc)
                      ELSE IF au.exc # "none" THEN Outcome(s2, <<>>, au.exc)
                      ELSE Outcome(s3, <<Callback1(NoError)>>, "none")
    ELSE Outcome(s, <<Callback1(NoError)>>, "none")

\* _parse_discovery_response without the `return` of line 121: after reporting
\* the parse failure it goes on to line 123 and subscripts response = None
ParseDiscoveryResponse_noReturn(s, body) ==
    IF JsonLoads(body).exc # "none"
    THEN Outcome(s, <<Callback1(CreateError("Parsing realm discovery response JSON failed", 0, body))>>, "TypeError")
    ELSE Outcome(s, <<Callback1(NoError)>>, "none")

\* _parse_discovery_response storing the received federation_protocol in
\* self._federation_protocol on entry, before anything is parsed or validated
ParseDiscoveryResponse_eagerProtocol(s, body) ==
    LET s0 == [s EXCEPT !.federation_protocol =
                   IF "federation_protocol" \in DOMAIN body.obj
                   THEN body.obj["federation_protocol"] ELSE PyNone]
    IN  Outcome(s0, <<Callback1(CreateError("Parsing realm discovery response JSON failed", 0, body))>>, "none")

\* UserRealm._parse_discovery_response(body, callback)
ParseDiscoveryResponse(s, body) ==
    LET response == JsonLoads(body)
    IN  IF response.exc # "none"
        THEN Outcome(s, <<Callback1(CreateError("Parsing realm discovery response JSON failed", 0, body))>>, "none")
        ELSE LET g == DictGet(response.val, "account_type")
                 account_type == ValidateAccountType(g.val)
             IN  IF g.exc # "none" THEN Outcome(s, <<>>, g.exc)
                 ELSE IF account_type.exc # "none" THEN Outcome(s, <<>>, account_type.exc)
                 ELSE IF ~Truthy(account_type.val)
                 THEN Outcome(s, <<Callback1(CreateError("Cannot parse account_type", 0, NoBody))>>, "none")
                 ELSE ParseFederation([s EXCEPT !.account_type = account_type.val],
                                      response.val)

\* discover, lines 154-165: the status code is not a success
HttpErrorBranch(s, r) ==
    LET b == RespBody(r)
        j == RespJson(r)
        with_body == BodyTruthy(b.val)
        error_response ==
            IF with_body /\ j.exc = "none" THEN ResponseJson(j.val) ELSE ResponseEmptyString
        err == CreateError("User Realm Discovery request returned http error",
                           r.status_code, IF with_body THEN b.val ELSE NoBody)
    IN  IF b.exc # "none" THEN Outcome(s, <<>>, b.exc)
        ELSE Outcome(s, <<Callback2(err, error_response)>>, "none")

\* discover, lines 152-168: the body of the try statement after requests.get returned r
\* (ran: whether _parse_discovery_response was entered)
TryBody(s, r) ==
    IF ~IsHttpSuccess(r.status_code)
    THEN [out |-> HttpErrorBranch(s, r), ran |-> FALSE]
    ELSE LET b == RespBody(r)
         IN  IF b.exc # "none"
             THEN [out |-> Outcome(s, <<>>, b.exc), ran |-> FALSE]
             ELSE [out |-> ParseDiscoveryResponse(s, b.val), ran |-> TRUE]

\* the except clause reporting a new error object instead of the caught exp
ExceptHandler_newError(exp) ==
    <<Callback2(CreateError("User Realm Discovery request failed", 0, NoBody), ResponseNone)>>

\* discover, lines 170-173: except Exception as exp
ExceptHandler(exp) == <<Callback2(ExceptionObject(exp), ResponseNone)>>

-----------------------------------------------------------------------------
(* Actions *)

NoInput == [value |-> PyNone, case_sensitive |-> FALSE]
NoCall == [fn |-> "none", vocab |-> "none", exc |-> "none", val |-> PyNone]

Init ==
    /\ pc = "ready"
    /\ self = InitSelf
    /\ resp = NoResp
    /\ raised = "none"
    /\ calls = <<>>
    /\ gets = 0
    /\ parsed = FALSE
    /\ nDiscover = 0
    /\ vin = NoInput
    /\ vout = NoCall

\* UserRealm(call_context, user_principle, authority): a new object
Construct ==
    /\ pc = "returned"
    /\ pc' = "ready"
    /\ self' = InitSelf
    /\ resp' = NoResp
    /\ raised' = "none"
    /\ calls' = <<>>
    /\ gets' = 0
    /\ parsed' = FALSE
    /\ nDiscover' = 0
    /\ UNCHANGED <<vin, vout>>

\* discover(callback), lines 145-151: up to the call of requests.get
DiscoverCall ==
    /\ pc \in {"ready", "returned"}
    /\ nDiscover < MaxDiscover
    /\ pc' = "get"
    /\ nDiscover' = nDiscover + 1
    /\ gets' = 1
    /\ calls' = <<>>
    /\ resp' = NoResp
    /\ raised' = "none"
    /\ parsed' = FALSE
    /\ UNCHANGED <<self, vin, vout>>

\* requests.get raises exp: lines 170-173
GetRaises(exp) ==
    /\ pc = "get"
    /\ pc' = "returned"
    /\ raised' = exp
    /\ calls' = calls \o ExceptHandler(exp)
    /\ UNCHANGED <<self, resp, gets, parsed, nDiscover, vin, vout>>

\* requests.get returns r: lines 152-173
GetReturns(r) ==
    LET t == TryBody(self, r)
    IN  /\ pc = "get"
        /\ pc' = "returned"
        /\ resp' = r
        /\ self' = t.out.self
        /\ parsed' = t.ran
        /\ calls' = IF t.out.exc # "none"
                    THEN calls \o t.out.calls \o ExceptHandler(t.out.exc)
                    ELSE calls \o t.out.calls
        /\ UNCHANGED <<raised, gets, nDiscover, vin, vout>>

Next ==
    \/ Construct
    \/ DiscoverCall
    \/ \E exp \in TransportExceptions : GetRaises(exp)
    \/ \E r \in Responses : GetReturns(r)

Spec == Init /\ [][Next]_vars

-----------------------------------------------------------------------------
(* The validation helpers on their own: an input is drawn, one helper is called *)

ValueInputs ==
    {PyNone, "", "Managed", "managed", "MANAGED", "Federated", "federated",
     "FEDERATED", "Unknown", "unknown", "WSFed", "wsfed", "WSFED", "Bogus", "bogus"}

Vocabularies == {"AccountType", "FederationProtocolType"}

Vocabulary(name) == IF name = "AccountType" THEN AccountType ELSE FederationProtocolType

InitValidate ==
    /\ pc = "ready"
    /\ self = InitSelf
    /\ resp = NoResp
    /\ raised = "none"
    /\ calls = <<>>
    /\ gets = 0
    /\ parsed = FALSE
    /\ nDiscover = 0
    /\ vin \in [value : ValueInputs, case_sensitive : BOOLEAN]
    /\ vout = NoCall

Called(fn, vocab, r) == [fn |-> fn, vocab |-> vocab, exc |-> r.exc, val |-> r.val]

\* self._validate_constant_value(constants, value, case_sensitive)
DoValidateConstantValue(vocab) ==
    /\ vout = NoCall
    /\ vout' = Called("_validate_constant_value", vocab,
                      CallValidateConstantValue(<<Vocabulary(vocab), vin.value, vin.case_sensitive>>))
    /\ UNCHANGED <<pc, self, resp, raised, calls, gets, parsed, nDiscover, vin>>

\* self._validate_account_type(value)
DoValidateAccountType ==
    /\ vout = NoCall
    /\ vout' = Called("_validate_account_type", "AccountType", ValidateAccountType(vin.value))
    /\ UNCHANGED <<pc, self, resp, raised, calls, gets, parsed, nDiscover, vin>>

\* self._validate_federation_protocol(value)
DoValidateFederationProtocol ==
    /\ vout = NoCall
    /\ vout' = Called("_validate_federation_protocol", "FederationProtocolType",
                      ValidateFederationProtocol(vin.value))
    /\ UNCHANGED <<pc, self, resp, raised, calls, gets, parsed, nDiscover, vin>>

NextValidate ==
    \/ \E vocab \in Vocabularies : DoValidateConstantValue(vocab)
    \/ DoValidateAccountType
    \/ DoValidateFederationProtocol

SpecValidate == InitValidate /\ [][NextValidate]_vars

-----------------------------------------------------------------------------
(* Properties *)

\* the running discover has returned to its caller
Returned == pc = "returned"

\* the last discover got a response with a success status (and a readable body)
GotSuccess == Returned /\ resp # NoResp /\ IsHttpSuccess(resp.status_code)
GotJson == GotSuccess /\ resp.has_body /\ resp.body.kind = "json"

Has(key) == key \in DOMAIN resp.body.obj
Got(key) == resp.body.obj[key]

FederationFields ==
    {self.federation_protocol, self.federation_metadata_url,
     self.federation_active_auth_url}

C2_FederationAllOrNothing ==
    pc \in {"ready", "returned"} =>
        /\ self.account_type # AccountType["Federated"] => FederationFields = {PyNone}
        /\ PyNone \in FederationFields => FederationFields = {PyNone}

C2_Witness ==
    /\ GotJson
    /\ parsed
    /\ Has("account_type") /\ Got("account_type") = "Federated"
    /\ Has("federation_protocol") /\ Got("federation_protocol") = "WSFed"
    /\ Has("federation_metadata_url") /\ ~Has("federation_active_auth_url")
    /\ Len(calls) = 1

\* C3: a response whose status is outside 2xx is reported as the HTTP error
\* carrying that status code, for every body, and the response mapper is not run.
C3_HttpErrorReported ==
    (Returned /\ resp # NoResp /\ ~IsHttpSuccess(resp.status_code)) =>
        /\ Len(calls) = 1
        /\ calls[1].err.kind = "created"
        /\ calls[1].err.detail = "User Realm Discovery request returned http error"
        /\ calls[1].err.status = resp.status_code
        /\ ~parsed

\* C4: an exception raised by requests.get is handed to callback as it is,
\* as the only notification, and a discover call issues at most one GET.
C4_TransportFailureReported ==
    /\ gets <= 1
    /\ (Returned /\ raised # "none") =>
           calls = <<Callback2(ExceptionObject(raised), ResponseNone)>>

C4_Witness ==
    /\ Returned
    /\ raised = "Timeout"
    /\ gets = 1
    /\ Len(calls) = 1

\* C5: a 2xx JSON body whose account_type is missing, empty or outside the
\* vocabulary is reported as "Cannot parse account_type", and nothing else.
C5_AccountTypeRejected ==
    (GotJson /\ (~Has("account_type")
                    \/ Got("account_type") = ""
                    \/ Lower(Got("account_type")) \notin Values(AccountType))) =>
        calls = <<Callback1(CreateError("Cannot parse account_type", 0, NoBody))>>

\* C6: a 2xx JSON body with account_type Federated and a federation_protocol
\* that is empty or outside the vocabulary is reported as "Cannot parse
\* federation protocol", without success, the federation fields left unset.
C6_ProtocolRejected ==
    (GotJson /\ Has("account_type") /\ Has("federation_protocol")
         /\ Lower(Got("account_type")) = AccountType["Federated"]
         /\ (Got("federation_protocol") = ""
                \/ Lower(Got("federation_protocol")) \notin Values(FederationProtocolType))) =>
        /\ calls = <<Callback1(CreateError("Cannot parse federation protocol", 0, NoBody))>>
        /\ FederationFields = {PyNone}

\* C7: a 2xx body that is not JSON is reported as "Parsing realm discovery
\* response JSON failed" with the raw body, and no field is assigned.
C7_NotJsonRejected ==
    (GotSuccess /\ resp.body.kind = "text") =>
        /\ calls = <<Callback1(CreateError("Parsing realm discovery response JSON failed", 0, resp.body))>>
        /\ self = InitSelf

\* C8: a 2xx JSON body with account_type "Managed" in any letter case
\* succeeds with account_type Managed and no federation field.
C8_ManagedSucceeds ==
    (GotJson /\ Has("account_type")
         /\ Lower(Got("account_type")) = AccountType["Managed"]) =>
        /\ calls = <<Callback1(NoError)>>
        /\ self.account_type = AccountType["Managed"]
        /\ FederationFields = {PyNone}

\* C9: a 2xx JSON body with account_type Federated and a federation_protocol
\* of the vocabulary succeeds with the two enums normalized and the two URLs
\* as received.
C9_FederatedSucceeds ==
    (GotJson /\ Has("account_type") /\ Has("federation_protocol")
         /\ Has("federation_metadata_url") /\ Has("federation_active_auth_url")
         /\ Lower(Got("account_type")) = AccountType["Federated"]
         /\ Lower(Got("federation_protocol")) \in Values(FederationProtocolType)) =>
        /\ calls = <<Callback1(NoError)>>
        /\ self.account_type = AccountType["Federated"]
        /\ self.federation_protocol = Lower(Got("federation_protocol"))
        /\ self.federation_metadata_url = Got("federation_metadata_url")
        /\ self.federation_active_auth_url = Got("federation_active_auth_url")

\* C10: the validation helper, called directly or through
\* _validate_account_type / _validate_federation_protocol, never raises: it
\* returns the value (lowercased unless matching is case-sensitive) when the
\* value is in the vocabulary and a falsy value otherwise.
C10_ValidationNeverRaises ==
    vout.fn # "none" =>
        LET case_sensitive == vout.fn = "_validate_constant_value" /\ vin.case_sensitive
            v == IF case_sensitive THEN vin.value ELSE Lower(vin.value)
        IN  /\ vout.exc = "none"
            /\ IF Truthy(vin.value) /\ v \in Values(Vocabulary(vout.vocab))
               THEN vout.val = v
               ELSE ~Truthy(vout.val)

=============================================================================
